---- MODULE Spec2Model ----
(***************************************************************************)
(* Model of docstring-ai (docstring_ai/lib): the file-processing pipeline  *)
(* (process.py), the assistant job runner (prompt_utils.py), the cache     *)
(* (utils.py) and the context assembler (chroma_utils.py).                 *)
(*                                                                         *)
(* The repository layout is fixed: the repository root "." holds a.py and  *)
(* the folder "sub", which holds sub/b.py.  File contents, fingerprints,   *)
(* descriptions and job results are abstract values.                       *)
(***************************************************************************)
EXTENDS Integers, Sequences, FiniteSets, TLC

\* ---------------------------------------------------------------- bounds
MaxWait == 1        \* polls of one job that may observe queued/in_progress
MaxDepth == 1       \* largest pr_depth the pipeline is started with
MaxBudget == 3      \* largest max_tokens given to get_relevant_context
MaxClasses == 2     \* most entries of the classes dict
MaxDocs == 2        \* most documents one collection.query returns (at most n_results)
MaxPrCalls == 2     \* calls of create_github_pr in one run (one per folder)

\* ------------------------------------------------------ program constants
MAX_RETRIES == 5
RETRY_BACKOFF == 3

\* ------------------------------------------------------- repository layout
Files == {"a.py", "sub/b.py"}
\* get_python_files: recursive walk, files of the folder before sub-folders
get_python_files(folder) ==
    IF folder = "." THEN <<"a.py", "sub/b.py">> ELSE <<"sub/b.py">>

NoEntry == "<none>"                          \* cache.get(...) is None
Unreadable == ""                             \* compute_sha256 sentinel

\* file contents: "orig" undocumented code, "doc" code with docstrings,
\* "hdoc" the same under the docstring header
\* compute_sha256 of a readable file: injective on the contents
Sha256(c) == CASE c = "orig" -> "sha-orig"
               [] c = "doc"  -> "sha-doc"
               [] c = "hdoc" -> "sha-hdoc"

EmptyCache == [f \in Files |-> NoEntry]

\* a str is truthy iff it is not empty
Truthy(s) == s # ""

\* -------------------------------------------------------------- job runner
\* return values of send_message_to_assistant
IncompleteRun == "Operation failed due to incomplete run."
ApiError == "Operation failed due to an API error."
MessageText == "text"                  \* text of the thread's last message
Raised == "<raise>"                    \* the call raised instead of returning

\* run.status as the remote service reports it; "queued" stands for queued
\* and in_progress, "failed" for failed, expired and cancelled
Active == {"queued", "requires_action"}

\* new_file_content values the assistant may pass to the tool
NewContents == {"", "doc"}

VARIABLES
    pc,               \* position of process_files_and_create_prs
    cur,              \* python_file_path of the file being handled
    disk,             \* content of each Python file
    cache,            \* the in-memory cache dict
    jpc,              \* position of send_message_to_assistant
    functions,        \* the functions dict handed to the runner
    runStatus,        \* status of the run last started on the thread
    retries,          \* poll_run_completion's retries
    waits,            \* polls of this job that saw the run still in progress
    polls,            \* runs.retrieve calls made by this job
    sawOther,         \* some retrieve of this job did not report 'failed'
    invoked,          \* tool function invocations made by this job
    acked,            \* submit_tool_outputs calls made by this job
    requested,        \* tool calls this job's run was seen asking for
    slept,            \* seconds this job slept between retries
    toolRet,          \* return value of the last tool invocation
    jres,             \* value send_message_to_assistant returned
    overlap,          \* a message was posted while an earlier run was active
    probe,            \* the job's calls are being counted
    manual,           \* the manual argument
    pr_depth,         \* the pr_depth argument
    cacheFile,        \* docstring_cache.json on disk
    context_summary,  \* the in-memory description ledger
    ledgerFile,       \* context_summary.json on disk
    todo,             \* files_to_describe not yet visited
    batches,          \* folders of folder_dict not yet finished
    queue,            \* python_files_to_process not yet visited
    calledRemote,     \* this invocation posted a message or started a run
    cleanStart,       \* every file matched its cache entry when it started
    attempted,        \* calls of process_single_file per file
    failedFiles,      \* files whose processing failed at least once
    written,          \* files overwritten by this invocation
    unbacked,         \* files overwritten after create_backup failed
    approved,         \* files whose diff the user was shown and confirmed
    log,              \* what process_single_file or save_cache last logged
    checkpoint,       \* in-memory cache of the last batch save_cache finished
    described,        \* fingerprint of the content each ledger record describes
    cpc,              \* position of get_relevant_context
    classes,          \* entries of classes not yet queried
    results,          \* results['documents'][0] not yet visited
    max_tokens,       \* the max_tokens argument
    context,          \* get_relevant_context's context
    token_count,      \* get_relevant_context's token_count
    retrieved,        \* the documents the queries returned so far, in order
    assistant_id,     \* an assistant id was obtained (not None)
    thread_id,        \* a thread id was obtained (not None)
    gpc,              \* position of create_github_pr
    head,             \* the branch checked out in the local repository
    calls,            \* calls of create_github_pr made so far
    featureOut,       \* this call checked out its feature branch
    restored,         \* this call ran checkout_branch(target_branch)
    pr_created,       \* what create_github_pr returned
    prs               \* pull requests created on GitHub

jobVars == <<jpc, functions, runStatus, retries, waits, polls, sawOther,
             invoked, acked, requested, slept, toolRet, jres, overlap>>
fileVars == <<disk, cache, written, unbacked>>
argVars == <<manual, pr_depth, probe>>
ctxVars == <<cpc, classes, results, max_tokens, context, token_count,
             retrieved>>
setupVars == <<assistant_id, thread_id>>
prVars == <<gpc, head, calls, featureOut, restored, pr_created, prs>>
fixedVars == <<argVars, ctxVars, setupVars, prVars>>
loopVars == <<todo, batches, queue>>
histVars == <<calledRemote, cleanStart, attempted, failedFiles, approved, log,
             checkpoint, described>>
storeVars == <<cacheFile, context_summary, ledgerFile>>
pipeVars == <<fixedVars, loopVars, histVars, storeVars>>
vars == <<pc, cur, fileVars, jobVars, pipeVars>>

\* what the file system and the remote service may do to one call
IoOutcomes == {"header", "backup", "open", "rehash", "ok"}

\* ensure_docstring_header: puts the header in front of content lacking it
ensure_docstring_header(c) == IF c = "doc" THEN "hdoc" ELSE c

\* approve_and_save_file recording the fingerprint the file had before it
\* was overwritten
approve_and_save_file_HashBeforeWrite(f, new, io) ==
    IF ~(new # "") \/ io \in {"header", "open"}
    THEN [ret |-> FALSE, disk |-> disk, cache |-> cache, written |-> written,
          backup |-> (new # "" /\ io = "open")]
    ELSE [ret |-> TRUE,
          backup |-> io # "backup",
          written |-> written \cup {f},
          disk |-> [disk EXCEPT ![f] = ensure_docstring_header(new)],
          cache |-> [cache EXCEPT ![f] =
                        IF io = "rehash" THEN "" ELSE Sha256(disk[f])]]

\* approve_and_save_file(new_file_content, python_file_path=f, ...): the
\* value returned and the files and cache it leaves.  io names the step that
\* fails: "header": ensure_docstring_header raises; "backup": create_backup
\* cannot make the copy, logs the error and returns; "open": open(..., "w")
\* raises; "rehash": compute_sha256 cannot read the file back and gives "";
\* "ok": none.  backup: the call left a copy of the previous content.  The
\* manual argument is not read.
approve_and_save_file(f, new, io) ==
    IF ~Truthy(new) \/ io \in {"header", "open"}
    THEN [ret |-> FALSE, disk |-> disk, cache |-> cache, written |-> written,
          backup |-> (new # "" /\ io = "open")]
    ELSE [ret |-> TRUE,
          backup |-> io # "backup",
          written |-> written \cup {f},
          disk |-> [disk EXCEPT ![f] = ensure_docstring_header(new)],
          cache |-> [cache EXCEPT ![f] =
                        IF io = "rehash" THEN Unreadable
                        ELSE Sha256(ensure_docstring_header(new))]]

\* a counter of the job's calls, kept while probe is on
Count(n) == IF probe THEN n + 1 ELSE n

\* the statuses a run last seen in status s may be found in now: the remote
\* service moves a run on by itself, a terminal status stays, and a run
\* waiting for tool outputs can only expire
Observable(s) ==
    CASE s = "queued" -> {"queued", "requires_action", "completed", "failed"}
      [] s = "requires_action" -> {"requires_action", "failed"}
      [] OTHER -> {s}

\* send_message_to_assistant, first half: messages.create then runs.create.
\* sent = "ok": both calls succeed; "post": messages.create raises;
\* "create": runs.create raises.  prev is the status the run started
\* before has by now.
JobSubmit ==
    /\ jpc = "submit"
    /\ \E sent \in {"ok", "post", "create"}, prev \in Observable(runStatus) :
          /\ overlap' = (overlap \/ prev \in Active)
          /\ IF sent = "ok"
             THEN /\ runStatus' = "queued"
                  /\ jpc' = "poll"
                  /\ jres' = jres
             ELSE /\ runStatus' = prev
                  /\ jpc' = "ret"
                  /\ jres' = ApiError
    /\ calledRemote' = TRUE
    /\ UNCHANGED <<pc, cur, fileVars, functions, retries, waits, polls,
                   sawOther, invoked, acked, requested, slept, toolRet>>
    /\ UNCHANGED <<fixedVars, loopVars, storeVars, cleanStart, attempted,
                   failedFiles, approved, log, checkpoint, described>>

\* send_message_to_assistant after poll_run_completion returned a truthy
\* value: the text of the thread's last message, "" when it is empty, the
\* API-error string on any other exception, IndexError re-raised
FetchResults == {MessageText, "", ApiError, Raised}

\* poll_run_completion returns v and send_message_to_assistant returns:
\* the locals of the poll are gone
PollReturn(v) ==
    /\ jpc' = "ret"
    /\ retries' = 0
    /\ slept' = slept
    /\ IF v THEN \E t \in FetchResults : jres' = t
            ELSE jres' = IncompleteRun

\* AfterBreak never giving up
AfterBreakUnbounded(r) == [retries |-> r + 1, again |-> TRUE]

\* AfterBreak giving up one attempt early (>= for >)
AfterBreakEarly(r) == [retries |-> r + 1, again |-> ~(r + 1 >= MAX_RETRIES)]

\* the "break" of the inner polling loop followed by the retry bookkeeping:
\* the value of retries after it, and whether the outer loop goes on
AfterBreak(r) == [retries |-> r + 1, again |-> ~(r + 1 > MAX_RETRIES)]

\* Backoff doubling from one retry to the next
BackoffExponential(n) == RETRY_BACKOFF * 2 ^ n

\* time.sleep(RETRY_BACKOFF * retries): the seconds slept before retry n
Backoff(n) == RETRY_BACKOFF * n

\* poll_run_completion breaks out of the inner loop
PollBreak ==
    LET b == AfterBreak(retries) IN
    IF b.again
    THEN /\ retries' = b.retries
         /\ slept' = IF probe THEN slept + Backoff(b.retries) ELSE slept
         /\ UNCHANGED <<jpc, jres>>
    ELSE PollReturn(FALSE)

\* runs.retrieve raises
PollRaises ==
    /\ jpc = "poll"
    /\ polls' = Count(polls)
    /\ sawOther' = probe
    /\ PollBreak
    /\ UNCHANGED <<pc, cur, fileVars, functions, runStatus, waits, invoked,
                   acked, requested, toolRet, overlap>>
    /\ UNCHANGED pipeVars

\* status 'failed', 'expired' or 'cancelled'
PollFailed ==
    /\ jpc = "poll"
    /\ "failed" \in Observable(runStatus)
    /\ runStatus' = "failed"
    /\ polls' = Count(polls)
    /\ PollBreak
    /\ UNCHANGED <<pc, cur, fileVars, functions, waits, sawOther, invoked,
                   acked, requested, toolRet, overlap>>
    /\ UNCHANGED pipeVars

\* status 'completed': msg is what retrieve_last_assistant_message gives
PollCompleted ==
    /\ jpc = "poll"
    /\ "completed" \in Observable(runStatus)
    /\ runStatus' = "completed"
    /\ polls' = Count(polls)
    /\ sawOther' = probe
    /\ \E msg \in {"content", "empty", "raise"} :
          CASE msg = "content" -> PollReturn(TRUE)
            [] msg = "empty" -> PollReturn(FALSE)
            [] msg = "raise" -> PollBreak
    /\ UNCHANGED <<pc, cur, fileVars, functions, waits, invoked, acked,
                   requested,
                   toolRet, overlap>>
    /\ UNCHANGED pipeVars

\* status queued or in_progress: sleep RETRY_BACKOFF and poll again
PollWaiting ==
    /\ jpc = "poll"
    /\ runStatus = "queued"
    /\ waits < MaxWait
    /\ waits' = Count(waits)
    /\ polls' = Count(polls)
    /\ sawOther' = probe
    /\ UNCHANGED <<pc, cur, fileVars, jpc, functions, runStatus, retries,
                   invoked, acked, requested, slept, toolRet, jres, overlap>>
    /\ UNCHANGED pipeVars

\* status 'requires_action' with one tool call
PollRequiresAction ==
    /\ jpc = "poll"
    /\ "requires_action" \in Observable(runStatus)
    /\ polls' = Count(polls)
    /\ sawOther' = probe
    /\ requested' = Count(requested)
    /\ \/ \* the call names another function and the loop passes over it,
          \* or KeyError on functions[...], or json.loads raises
          /\ runStatus' = "requires_action"
          /\ PollBreak
          /\ UNCHANGED <<fileVars, invoked, acked, toolRet>>
       \/ \* the call names write_file_with_new_docstring
          /\ functions
          /\ \E new \in NewContents, io \in IoOutcomes :
                LET r == approve_and_save_file(cur, new, io) IN
                /\ invoked' = Count(invoked)
                /\ toolRet' = (probe /\ r.ret)
                /\ disk' = r.disk
                /\ cache' = r.cache
                /\ written' = r.written
                /\ unbacked' = IF probe /\ r.ret /\ ~r.backup
                               THEN unbacked \cup {cur} ELSE unbacked
                /\ \/ \* submit_tool_outputs accepted: the run goes on
                      /\ r.ret
                      /\ acked' = Count(acked)
                      /\ runStatus' = "queued"
                      /\ PollReturn(TRUE)
                   \/ \* submit_tool_outputs raises, or the tool returned
                      \* a falsy value: the Exception raised after the loop
                      /\ runStatus' = "requires_action"
                      /\ PollBreak
                      /\ acked' = acked
    /\ UNCHANGED <<pc, cur, functions, waits, overlap>>
    /\ UNCHANGED pipeVars

\* ---------------------------------------------------------------- cache
\* a JSON file on disk: absent, holding a complete document, or opened for
\* writing with the dump not finished.  A truncated file has lost what it
\* held; prev keeps, for reference only, what a reader would have loaded
\* from it before.
Missing(empty) == [st |-> "missing", data |-> empty]
Partial(prev) == [st |-> "partial", data |-> prev]
Complete(doc) == [st |-> "complete", data |-> doc]

\* json_dump leaving out the entries whose value is falsy
json_dump_SkipEmpty(mapping) ==
    LET keys == get_python_files(".")
        F[i \in 0..Len(keys)] ==
          IF i = 0 THEN <<>>
          ELSE IF mapping[keys[i]] # NoEntry /\ mapping[keys[i]] # ""
               THEN Append(F[i - 1], <<keys[i], mapping[keys[i]]>>)
               ELSE F[i - 1]
    IN F[Len(keys)]

\* json.dump of a dict of str to str: the object's members, one <<key,
\* value>> pair per entry, here in the order of get_python_files(".")
json_dump(mapping) ==
    LET keys == get_python_files(".")
        F[i \in 0..Len(keys)] ==
          IF i = 0 THEN <<>>
          ELSE IF mapping[keys[i]] # NoEntry
               THEN Append(F[i - 1], <<keys[i], mapping[keys[i]]>>)
               ELSE F[i - 1]
    IN F[Len(keys)]

\* json.load of an object: a dict with, for each key, the value of its last
\* member
json_load(text) ==
    [f \in Files |->
        IF \E i \in 1..Len(text) : text[i][1] = f
        THEN text[CHOOSE i \in 1..Len(text) :
                    /\ text[i][1] = f
                    /\ \A j \in (i + 1)..Len(text) : text[j][1] # f][2]
        ELSE NoEntry]

\* load_cache: a missing file, or one json.load rejects, gives {}
load_cache(file) ==
    IF file.st = "complete" THEN json_load(file.data) ELSE EmptyCache

\* the ledger load of process_files_and_create_prs: same rule, []
load_context_summary(file) == IF file.st = "complete" THEN file.data ELSE <<>>

\* --------------------------------------------------------------- pipeline
\* os.path.getsize of a file by content: docstrings make it longer
Size(c) == IF c = "orig" THEN 1 ELSE 2

\* sort_files_by_size(get_python_files(repo_path)): stable, ascending
sort_files_by_size ==
    IF Size(disk["a.py"]) <= Size(disk["sub/b.py"])
    THEN <<"a.py", "sub/b.py">> ELSE <<"sub/b.py", "a.py">>

\* compute_sha256: "" when the file cannot be read
compute_sha256(f, readable) == IF readable THEN Sha256(disk[f]) ELSE Unreadable

SelectSeq2(seq, keep) ==
    LET F[i \in 0..Len(seq)] ==
          IF i = 0 THEN <<>>
          ELSE IF keep[seq[i]] THEN Append(F[i - 1], seq[i]) ELSE F[i - 1]
    IN F[Len(seq)]

\* filter_files_by_hash passing over the files the cache has no entry for
filter_files_by_hash_KnownOnly(file_paths, c, rd) ==
    SelectSeq2(file_paths, [f \in Files |->
        c[f] # NoEntry /\ compute_sha256(f, rd[f]) # c[f]])

\* filter_files_by_hash(file_paths, repo_path, c): the files whose current
\* hash differs from c's entry; rd says which files can be read
filter_files_by_hash(file_paths, c, rd) ==
    SelectSeq2(file_paths, [f \in Files |-> compute_sha256(f, rd[f]) # c[f]])

\* FolderBatches keeping the folders with depth < pr_depth
FolderBatchesBelowDepth(depth) ==
    IF depth >= 2 THEN <<"sub", ".">>
    ELSE IF depth = 1 THEN <<".">> ELSE <<>>

\* traverse_repo then reversed(folder_dict.items()): deepest level first
FolderBatches(depth) ==
    IF depth >= 1 THEN <<"sub", ".">> ELSE <<".">>

\* HasDescription looking at the first record only
HasDescriptionFirstOnly(summary, f) ==
    Len(summary) > 0 /\ summary[1].file = f

\* any(str(Path(entry["file"])) == relative_path for entry in summary)
HasDescription(summary, f) == \E i \in 1..Len(summary) : summary[i].file = f

NoLog == [level |-> "", result |-> ""]

ResetJob ==
    /\ jpc' = "idle"
    /\ functions' = FALSE
    /\ retries' = 0
    /\ waits' = 0
    /\ polls' = 0
    /\ sawOther' = FALSE
    /\ invoked' = 0
    /\ acked' = 0
    /\ requested' = 0
    /\ slept' = 0
    /\ toolRet' = FALSE
    /\ jres' = ""

\* what initialize_and_create_assistant returns: (None, None),
\* (assistant_id, None) or both ids
initialize_and_create_assistant ==
    {[assistant |-> FALSE, thread |-> FALSE],
     [assistant |-> TRUE, thread |-> FALSE],
     [assistant |-> TRUE, thread |-> TRUE]}

\* SetupFailed testing the assistant id alone
SetupFailedAssistantOnly(assistant, thread) == ~assistant

\* "if not assistant_id or not thread_id": log and return
SetupFailed(assistant, thread) == ~assistant \/ ~thread

\* process_files_and_create_prs up to the description loop.  ids: what
\* initialize_and_create_assistant returned; rd: which files
\* filter_files_by_hash can read.
StartPipeline ==
    /\ pc = "start"
    /\ \E ids \in initialize_and_create_assistant, rd \in [Files -> BOOLEAN] :
          LET loaded == load_cache(cacheFile) IN
          /\ cache' = loaded
          /\ context_summary' = load_context_summary(ledgerFile)
          /\ cleanStart' = \A f \in Files : Sha256(disk[f]) = loaded[f]
          /\ assistant_id' = ids.assistant
          /\ thread_id' = ids.thread
          /\ IF ~SetupFailed(ids.assistant, ids.thread)
             THEN /\ pc' = "describe"
                  /\ batches' = FolderBatches(pr_depth)
                  /\ todo' = filter_files_by_hash(sort_files_by_size, loaded, rd)
             ELSE /\ pc' = "aborted"
                  /\ UNCHANGED <<batches, todo>>
    /\ UNCHANGED <<cur, disk, written, unbacked, jobVars, argVars, ctxVars,
                   prVars,
                   queue, calledRemote, attempted, failedFiles, approved, log,
                   checkpoint, described, cacheFile, ledgerFile>>

\* process_file_descriptions, one file: skipped when the ledger has a record
\* for it or it cannot be read, else its description job is started
DescribeFile ==
    /\ pc = "describe"
    /\ jpc = "idle"
    /\ todo # <<>>
    /\ \E readable \in BOOLEAN :
          IF HasDescription(context_summary, Head(todo)) \/ ~readable
          THEN /\ todo' = Tail(todo)
               /\ UNCHANGED <<cur, jpc, functions>>
          ELSE /\ cur' = Head(todo)
               /\ jpc' = "submit"
               /\ functions' = FALSE
               /\ todo' = todo
    /\ UNCHANGED <<pc, fileVars, runStatus, retries, waits, polls, sawOther,
                   invoked, acked, requested, slept, toolRet, jres, overlap>>
    /\ UNCHANGED <<fixedVars, batches, queue, histVars, storeVars>>

\* process_file_descriptions after generate_file_description returned (or
\* raised): saved says whether the description file could be written
DescribeReturn ==
    /\ pc = "describe"
    /\ jpc = "ret"
    /\ \E saved \in BOOLEAN :
          IF jres # Raised /\ saved
          THEN /\ context_summary' =
                   Append(context_summary, [file |-> cur, description |-> jres])
               /\ described' = [described EXCEPT ![cur] = Sha256(disk[cur])]
          ELSE UNCHANGED <<context_summary, described>>
    /\ todo' = Tail(todo)
    /\ ResetJob
    /\ UNCHANGED <<pc, cur, fileVars, runStatus, overlap>>
    /\ UNCHANGED <<fixedVars, batches, queue, calledRemote, cleanStart,
                   attempted, failedFiles, approved, log, checkpoint,
                   cacheFile, ledgerFile>>

\* end of the description phase, and the head of the folder loop
NextFolder ==
    /\ pc \in {"describe", "folder"}
    /\ jpc = "idle"
    /\ pc = "describe" => todo = <<>>
    /\ IF batches = <<>>
       THEN pc' = "done" /\ queue' = queue
       ELSE pc' = "files" /\ queue' = get_python_files(Head(batches))
    /\ UNCHANGED <<cur, fileVars, jobVars, fixedVars, todo, batches,
                   histVars, storeVars>>

\* AfterFileFailure letting the failure end the folder's loop
AbortFolder(q) == <<>>

\* what the folder loop does with the rest of the folder's files after a
\* file failed: process_single_file returned, the loop goes on
AfterFileFailure(q) == Tail(q)

\* process_single_file up to create_file_with_docstring
ProcessSingleFile ==
    /\ pc = "files"
    /\ jpc = "idle"
    /\ queue # <<>>
    /\ attempted' = [attempted EXCEPT ![Head(queue)] = @ + 1]
    /\ \E readable \in BOOLEAN :
          IF ~readable
          THEN /\ queue' = AfterFileFailure(queue)
               /\ log' = [level |-> "error", result |-> ""]
               /\ failedFiles' = failedFiles \cup {Head(queue)}
               /\ UNCHANGED <<cur, jpc, functions>>
          ELSE /\ cur' = Head(queue)
               /\ jpc' = "submit"
               /\ functions' = TRUE
               /\ queue' = queue
               /\ log' = NoLog
               /\ failedFiles' = failedFiles
    /\ UNCHANGED <<pc, fileVars, runStatus, retries, waits, polls, sawOther,
                   invoked, acked, requested, slept, toolRet, jres, overlap>>
    /\ UNCHANGED <<fixedVars, todo, batches, calledRemote, cleanStart, approved,
                   checkpoint, described, storeVars>>

\* create_file_with_docstring's return value for what
\* send_message_to_assistant gave: a raise is re-raised, a falsy response
\* becomes None (here "")
create_file_with_docstring(response) == response

\* process_single_file's last lines: the log line for the result
LogLevel(result) ==
    IF result = Raised THEN "error"
    ELSE IF Truthy(result) THEN "success" ELSE "warning"

\* the docstring job ended in failure: it raised, returned nothing, or
\* returned one of the two failure strings
JobFailed(response) ==
    response \in {Raised, "", IncompleteRun, ApiError}

SingleFileReturn ==
    /\ pc = "files"
    /\ jpc = "ret"
    /\ LET result == create_file_with_docstring(jres) IN
       /\ log' = [level |-> LogLevel(result), result |-> jres]
       /\ queue' = IF JobFailed(jres)
                   THEN AfterFileFailure(queue) ELSE Tail(queue)
       /\ failedFiles' = IF JobFailed(jres)
                         THEN failedFiles \cup {cur} ELSE failedFiles
    /\ ResetJob
    /\ UNCHANGED <<pc, cur, fileVars, runStatus, overlap>>
    /\ UNCHANGED <<fixedVars, todo, batches, calledRemote, cleanStart, attempted,
                   approved, checkpoint, described, storeVars>>

\* Step 13: open(context_summary_full_path, "w") truncates the file
SaveLedgerOpen ==
    /\ pc = "files"
    /\ jpc = "idle"
    /\ queue = <<>>
    /\ ledgerFile' = Partial(load_context_summary(ledgerFile))
    /\ pc' = "dump_ledger"
    /\ log' = NoLog
    /\ UNCHANGED <<cur, fileVars, jobVars, fixedVars, loopVars, calledRemote,
                   cleanStart, attempted, failedFiles, approved, checkpoint,
                   described, cacheFile,
                   context_summary>>

\* Step 13: json.dump writes the ledger and the file is closed
SaveLedgerDump ==
    /\ pc = "dump_ledger"
    /\ ledgerFile' = Complete(context_summary)
    /\ pc' = "save_cache"
    /\ UNCHANGED <<cur, fileVars, jobVars, fixedVars, loopVars, histVars,
                   cacheFile, context_summary>>

\* save_cache's log lines: "Cache saved with N entries." and "Error saving
\* cache file"
SavedLog == [level |-> "info", result |-> "save_cache"]
SaveErrorLog == [level |-> "error", result |-> "save_cache"]

\* save_cache: open(cache_file, "w") truncates the file, or raises and
\* save_cache returns: the folder's batch is finished
SaveCacheOpen ==
    /\ pc = "save_cache"
    /\ \E opened \in BOOLEAN :
          IF opened
          THEN /\ cacheFile' = Partial(load_cache(cacheFile))
               /\ pc' = "dump_cache"
               /\ batches' = batches
               /\ log' = log
          ELSE /\ cacheFile' = cacheFile
               /\ pc' = "folder"
               /\ batches' = Tail(batches)
               /\ log' = SaveErrorLog
    /\ UNCHANGED <<cur, fileVars, jobVars, fixedVars, todo, queue, calledRemote,
                   cleanStart, attempted, failedFiles, approved, checkpoint, described,
                   ledgerFile, context_summary>>

\* save_cache: json.dump writes the mapping and the file is closed, or
\* raises part-way; the folder's batch is finished
SaveCacheDump ==
    /\ pc = "dump_cache"
    /\ \E dumped \in BOOLEAN :
          IF dumped
          THEN /\ cacheFile' = Complete(json_dump(cache))
               /\ checkpoint' = cache
               /\ log' = SavedLog
          ELSE /\ UNCHANGED <<cacheFile, checkpoint>>
               /\ log' = SaveErrorLog
    /\ batches' = Tail(batches)
    /\ pc' = "folder"
    /\ UNCHANGED <<cur, fileVars, jobVars, fixedVars, todo, queue, calledRemote,
                   cleanStart, attempted, failedFiles, approved, described,
                   ledgerFile, context_summary>>

PipelineNext ==
    \/ StartPipeline
    \/ DescribeFile
    \/ DescribeReturn
    \/ NextFolder
    \/ ProcessSingleFile
    \/ SingleFileReturn
    \/ SaveLedgerOpen
    \/ SaveLedgerDump
    \/ SaveCacheOpen
    \/ SaveCacheDump

\* a repository the pipeline has never run on
FreshRepository ==
    /\ disk = [f \in Files |-> "orig"]
    /\ cacheFile = Missing(EmptyCache)
    /\ ledgerFile = Missing(<<>>)
    /\ described = [f \in Files |-> NoEntry]

\* the state an earlier invocation leaves that documented and described
\* every file: the descriptions were generated from the files as they
\* were before their docstrings were written
ProcessedRepository ==
    /\ disk = [f \in Files |-> "hdoc"]
    /\ cacheFile = Complete(json_dump([f \in Files |-> Sha256("hdoc")]))
    /\ ledgerFile =
          Complete(<<[file |-> "a.py", description |-> MessageText],
                     [file |-> "sub/b.py", description |-> MessageText]>>)
    /\ described = [f \in Files |-> Sha256("orig")]

\* create_github_pr not called: the repository is on the target branch
PrIdle ==
    /\ gpc = "off"
    /\ head = "target"
    /\ calls = 0
    /\ featureOut = FALSE
    /\ restored = FALSE
    /\ pr_created = "none"
    /\ prs = 0

\* get_relevant_context not called
CtxIdle ==
    /\ cpc = "off"
    /\ classes = 0
    /\ results = <<>>
    /\ max_tokens = 0
    /\ context = <<>>
    /\ token_count = 0
    /\ retrieved = <<>>

InitCommon ==
    /\ cur = ""
    /\ cache = EmptyCache
    /\ written = {}
    /\ unbacked = {}
    /\ jpc = "idle"
    /\ functions = FALSE
    /\ runStatus = "none"
    /\ retries = 0
    /\ waits = 0
    /\ polls = 0
    /\ sawOther = FALSE
    /\ invoked = 0
    /\ acked = 0
    /\ requested = 0
    /\ slept = 0
    /\ toolRet = FALSE
    /\ jres = ""
    /\ overlap = FALSE
    /\ context_summary = <<>>
    /\ todo = <<>>
    /\ batches = <<>>
    /\ queue = <<>>
    /\ calledRemote = FALSE
    /\ cleanStart = FALSE
    /\ attempted = [f \in Files |-> 0]
    /\ failedFiles = {}
    /\ approved = {}
    /\ log = NoLog
    /\ checkpoint = EmptyCache

\* before initialize_and_create_assistant was called
NoIds == assistant_id = FALSE /\ thread_id = FALSE

Init ==
    /\ pc = "start"
    /\ NoIds
    /\ probe = FALSE
    /\ manual \in BOOLEAN
    /\ CtxIdle
    /\ PrIdle
    /\ pr_depth \in 0..MaxDepth
    /\ FreshRepository \/ ProcessedRepository
    /\ InitCommon

\* the job runner on its own: a caller that starts one job after another on
\* one thread, with or without the tool function, and counts the calls
UnitStart ==
    /\ pc = "unit"
    /\ jpc = "idle"
    /\ \E fn \in BOOLEAN, f \in Files :
          /\ functions' = fn
          /\ cur' = f
    /\ jpc' = "submit"
    /\ UNCHANGED <<pc, fileVars, runStatus, retries, waits, polls, sawOther,
                   invoked, acked, requested, slept, toolRet, jres, overlap, pipeVars>>

UnitReturn ==
    /\ pc = "unit"
    /\ jpc = "ret"
    /\ ResetJob
    /\ UNCHANGED <<pc, cur, fileVars, runStatus, overlap, pipeVars>>

InitJob ==
    /\ pc = "unit"
    /\ assistant_id = TRUE
    /\ thread_id = TRUE
    /\ probe = TRUE
    /\ manual \in BOOLEAN
    /\ CtxIdle
    /\ PrIdle
    /\ pr_depth = 0
    /\ FreshRepository
    /\ InitCommon

JobNext ==
    \/ JobSubmit
    \/ PollRaises
    \/ PollFailed
    \/ PollCompleted
    \/ PollWaiting
    \/ PollRequiresAction

Next == PipelineNext \/ JobNext

Spec == Init /\ [][Next]_vars

\* a repository processed before in which a.py was edited since: the cache
\* holds the fingerprint a.py had then.  known: sub/b.py was there already
\* and is unchanged, else it was added since and has no entry; wasDescribed:
\* the ledger holds a description of a.py
ChangedRepository ==
    \E known \in BOOLEAN, wasDescribed \in BOOLEAN :
        /\ disk = [f \in Files |->
                     IF f = "sub/b.py" /\ known THEN "hdoc" ELSE "orig"]
        /\ cacheFile = Complete(json_dump([f \in Files |->
                           IF f = "a.py" THEN "sha-old"
                           ELSE IF known THEN Sha256("hdoc") ELSE NoEntry]))
        /\ ledgerFile = Complete(
              (IF known
               THEN <<[file |-> "sub/b.py", description |-> MessageText]>>
               ELSE <<>>) \o
              (IF wasDescribed
               THEN <<[file |-> "a.py", description |-> MessageText]>>
               ELSE <<>>))
        /\ described = [f \in Files |->
                          IF f = "a.py"
                          THEN IF wasDescribed THEN "sha-old" ELSE NoEntry
                          ELSE IF known THEN Sha256("orig") ELSE NoEntry]

InitChanged ==
    /\ pc = "start"
    /\ NoIds
    /\ probe = FALSE
    /\ manual = FALSE
    /\ pr_depth = 0
    /\ CtxIdle
    /\ PrIdle
    /\ ChangedRepository
    /\ InitCommon

SpecChanged == InitChanged /\ [][Next]_vars

\* the cache file on its own: a caller that saves a mapping M with
\* save_cache, or loads the file with load_cache, one call after another
CacheMappings ==
    [Files -> {NoEntry, Unreadable, Sha256("orig"), Sha256("hdoc")}]

UnitSaveCache ==
    /\ pc \in {"cache_unit", "loaded"}
    /\ \E M \in CacheMappings : cache' = M
    /\ batches' = <<".">>
    /\ pc' = "save_cache"
    /\ UNCHANGED <<cur, disk, written, unbacked, jobVars, fixedVars, todo, queue,
                   histVars, storeVars>>

UnitLoadCache ==
    /\ pc \in {"cache_unit", "folder"}
    /\ cache' = load_cache(cacheFile)
    /\ pc' = "loaded"
    /\ UNCHANGED <<cur, disk, written, unbacked, jobVars, fixedVars, loopVars, histVars,
                   storeVars>>

InitCache ==
    /\ pc = "cache_unit"
    /\ probe = FALSE
    /\ manual = FALSE
    /\ pr_depth = 0
    /\ NoIds
    /\ CtxIdle
    /\ PrIdle
    /\ FreshRepository \/ ProcessedRepository
    /\ InitCommon

NextCache == UnitSaveCache \/ SaveCacheOpen \/ SaveCacheDump \/ UnitLoadCache

SpecCache == InitCache /\ [][NextCache]_vars

NextJob == UnitStart \/ UnitReturn \/ JobNext

SpecJob == InitJob /\ [][NextJob]_vars

\* one job from its start to its return.  The runner is a sequential loop
\* whose calls and sleeps return: while the job is being polled the next
\* step of the runner is eventually taken.  A run stays queued or in
\* progress for at most MaxWait polls.
NextOneJob == UnitStart \/ JobNext

SpecOneJob == InitJob /\ [][NextOneJob]_vars /\ WF_vars(JobNext)

\* ------------------------------------------------------- context assembler
\* A text is a sequence of atoms: "w" a word the vocabulary holds as one
\* token, "n" a newline.  The documents a query may return; none starts or
\* ends with a newline.
Documents == {<<"w">>, <<"w", "w">>, <<"w", "n", "w">>}

Separator == <<"n", "n">>                    \* "\n\n"

\* len(encoder.encode(s)) for the gpt2 encoding.  The text is first split
\* into pieces: a word is a piece; a run of newlines is one piece, except
\* that before a word its last newline is a piece of its own (the pattern
\* \s+(?!\S) then \s+).  The vocabulary holds "\n" and "\n\n", so a piece of
\* one or two newlines is one token (longer pieces do not arise from
\* Documents and Separator; they are counted two newlines to a token).
TokenCount(s) ==
    LET n == Len(s)
        RunStart(i) == CHOOSE a \in 1..i :
                          /\ \A j \in a..i : s[j] = "n"
                          /\ a = 1 \/ s[a - 1] # "n"
        RunEnd(i) == CHOOSE b \in i..n :
                          /\ \A j \in i..b : s[j] = "n"
                          /\ b = n \/ s[b + 1] # "n"
        Starts(i) == IF s[i] = "w" THEN TRUE
                     ELSE IF RunEnd(i) < n /\ i = RunEnd(i) THEN TRUE
                     ELSE (i - RunStart(i)) % 2 = 0
    IN Cardinality({i \in 1..n : Starts(i)})

\* Accepted turning away a document that fills the budget exactly
AcceptedBelow(count, doc, budget) == ~(count + TokenCount(doc) >= budget)

\* the test of the inner loop: the document is appended unless
\* token_count + doc_tokens > max_tokens
Accepted(count, doc, budget) == ~(count + TokenCount(doc) > budget)

SeqsUpTo(S, n) == UNION {[1..k -> S] : k \in 0..n}

\* the outer loop takes the next entry of classes and queries the collection
CtxQuery ==
    /\ cpc = "loop"
    /\ results = <<>>
    /\ classes > 0
    /\ classes' = classes - 1
    /\ \E docs \in SeqsUpTo(Documents, MaxDocs) :
          /\ results' = docs
          /\ retrieved' = retrieved \o docs
    /\ UNCHANGED <<cpc, max_tokens, context, token_count>>
    /\ UNCHANGED <<pc, cur, fileVars, jobVars, argVars, setupVars, prVars,
                   loopVars,
                   histVars, storeVars>>

\* the inner loop, one document
CtxDoc ==
    /\ cpc = "loop"
    /\ results # <<>>
    /\ LET doc == Head(results) IN
       IF Accepted(token_count, doc, max_tokens)
       THEN /\ context' = context \o doc \o Separator
            /\ token_count' = token_count + TokenCount(doc)
            /\ results' = Tail(results)
            /\ cpc' = cpc
       ELSE /\ cpc' = "returned"
            /\ UNCHANGED <<context, token_count, results>>
    /\ UNCHANGED <<classes, max_tokens, retrieved>>
    /\ UNCHANGED <<pc, cur, fileVars, jobVars, argVars, setupVars, prVars,
                   loopVars,
                   histVars, storeVars>>

\* both loops ran out: return context
CtxReturn ==
    /\ cpc = "loop"
    /\ results = <<>>
    /\ classes = 0
    /\ cpc' = "returned"
    /\ UNCHANGED <<classes, results, max_tokens, context, token_count,
                   retrieved>>
    /\ UNCHANGED <<pc, cur, fileVars, jobVars, argVars, setupVars, prVars,
                   loopVars,
                   histVars, storeVars>>

InitCtx ==
    /\ pc = "ctx"
    /\ NoIds
    /\ probe = FALSE
    /\ manual = FALSE
    /\ pr_depth = 0
    /\ FreshRepository
    /\ InitCommon
    /\ PrIdle
    /\ cpc = "loop"
    /\ classes \in 0..MaxClasses
    /\ max_tokens \in 0..MaxBudget
    /\ results = <<>>
    /\ context = <<>>
    /\ token_count = 0
    /\ retrieved = <<>>

NextCtx == CtxQuery \/ CtxDoc \/ CtxReturn

SpecCtx == InitCtx /\ [][NextCtx]_vars

\* ------------------------------------------------------- pull requests
\* create_github_pr called once per folder on one local repository, which
\* is on the target branch or on another branch when the run starts.  The
\* value it returns: True, False, or Raised when checkout_branch itself
\* raises inside the except clause.
otherVars == <<pc, cur, fileVars, jobVars, argVars, ctxVars, setupVars,
               loopVars, histVars, storeVars>>

\* "return False" in the body of create_github_pr
ReturnFalse ==
    /\ gpc' = "returned"
    /\ pr_created' = "False"

\* the caller's loop reaches Step 15 for the next folder
PrCall ==
    /\ gpc = "idle"
    /\ calls < MaxPrCalls
    /\ calls' = calls + 1
    /\ gpc' = "api"
    /\ featureOut' = FALSE
    /\ restored' = FALSE
    /\ pr_created' = "none"
    /\ UNCHANGED <<head, prs>>
    /\ UNCHANGED otherVars

\* Steps 3 to 5: Github(...), get_repo, get_branch, get_git_ref and
\* create_git_ref.  "ok": the remote branch exists or was created;
\* "github": a GithubException that Step 5 answers with return False;
\* "raise": any other exception
PrRemoteBranch ==
    /\ gpc = "api"
    /\ \E out \in {"ok", "github", "raise"} :
          CASE out = "ok" -> gpc' = "checkout_feature" /\ pr_created' = pr_created
            [] out = "github" -> ReturnFalse
            [] out = "raise" -> gpc' = "except" /\ pr_created' = pr_created
    /\ UNCHANGED <<head, calls, featureOut, restored, prs>>
    /\ UNCHANGED otherVars

\* commit_and_push_changes, git checkout -B: a CalledProcessError makes
\* commit_and_push_changes return False, any other exception (git not
\* installed) reaches the except clause of create_github_pr
PrCheckoutFeature ==
    /\ gpc = "checkout_feature"
    /\ \E out \in {"ok", "failed", "raise"} :
          CASE out = "ok" -> /\ head' = "feature"
                             /\ featureOut' = TRUE
                             /\ gpc' = "push"
                             /\ pr_created' = pr_created
            [] out = "failed" -> /\ ReturnFalse
                                 /\ UNCHANGED <<head, featureOut>>
            [] out = "raise" -> /\ gpc' = "except"
                                /\ UNCHANGED <<head, featureOut, pr_created>>
    /\ UNCHANGED <<calls, restored, prs>>
    /\ UNCHANGED otherVars

\* commit_and_push_changes after the checkout: add, status, diff, commit,
\* fetch, merge, push.  "ok": it returns True (pushed, or nothing to
\* commit); "failed": a git command or log_git_status failed and it returns
\* False; "raise": another exception
PrCommitPush ==
    /\ gpc = "push"
    /\ \E out \in {"ok", "failed", "raise"} :
          CASE out = "ok" -> gpc' = "changed" /\ pr_created' = pr_created
            [] out = "failed" -> ReturnFalse
            [] out = "raise" -> gpc' = "except" /\ pr_created' = pr_created
    /\ UNCHANGED <<head, calls, featureOut, restored, prs>>
    /\ UNCHANGED otherVars

\* Step 7: get_changed_files; it returns [] when nothing changed or a git
\* command failed
PrChangedFiles ==
    /\ gpc = "changed"
    /\ \E out \in {"files", "none", "raise"} :
          CASE out = "files" -> gpc' = "pull" /\ pr_created' = pr_created
            [] out = "none" -> ReturnFalse
            [] out = "raise" -> gpc' = "except" /\ pr_created' = pr_created
    /\ UNCHANGED <<head, calls, featureOut, restored, prs>>
    /\ UNCHANGED otherVars

\* Step 8: repo.create_pull
PrCreatePull ==
    /\ gpc = "pull"
    /\ \E out \in {"ok", "github", "raise"} :
          CASE out = "ok" -> /\ gpc' = "checkout_target"
                             /\ prs' = prs + 1
                             /\ pr_created' = pr_created
            [] out = "github" -> ReturnFalse /\ prs' = prs
            [] out = "raise" -> /\ gpc' = "except"
                                /\ UNCHANGED <<prs, pr_created>>
    /\ UNCHANGED <<head, calls, featureOut, restored>>
    /\ UNCHANGED otherVars

\* checkout_branch(repo_path, target_branch): the branch checked out after
\* it; ok says whether git checkout succeeded
CheckoutBranch(ok) == IF ok THEN "target" ELSE head

\* Step 9: checkout_branch(target_branch), then return True whether or not
\* the checkout worked
PrCheckoutTarget ==
    /\ gpc = "checkout_target"
    /\ restored' = TRUE
    /\ \E out \in {"ok", "failed", "raise"} :
          IF out = "raise"
          THEN gpc' = "except" /\ UNCHANGED <<head, pr_created>>
          ELSE /\ head' = CheckoutBranch(out = "ok")
               /\ gpc' = "returned"
               /\ pr_created' = "True"
    /\ UNCHANGED <<calls, featureOut, prs>>
    /\ UNCHANGED otherVars

\* "except Exception": checkout_branch(target_branch), then return False
PrExcept ==
    /\ gpc = "except"
    /\ restored' = TRUE
    /\ gpc' = "returned"
    /\ \E out \in {"ok", "failed", "raise"} :
          IF out = "raise"
          THEN pr_created' = Raised /\ head' = head
          ELSE pr_created' = "False" /\ head' = CheckoutBranch(out = "ok")
    /\ UNCHANGED <<calls, featureOut, prs>>
    /\ UNCHANGED otherVars

\* the caller logs the result and goes on with the next folder
PrReturn ==
    /\ gpc = "returned"
    /\ pr_created # Raised
    /\ gpc' = "idle"
    /\ UNCHANGED <<head, calls, featureOut, restored, pr_created, prs>>
    /\ UNCHANGED otherVars

InitPr ==
    /\ pc = "pr"
    /\ NoIds
    /\ probe = FALSE
    /\ manual = FALSE
    /\ pr_depth = 0
    /\ FreshRepository
    /\ InitCommon
    /\ CtxIdle
    /\ gpc = "idle"
    /\ head \in {"target", "other"}
    /\ calls = 0
    /\ featureOut = FALSE
    /\ restored = FALSE
    /\ pr_created = "none"
    /\ prs = 0

NextPr ==
    \/ PrCall
    \/ PrRemoteBranch
    \/ PrCheckoutFeature
    \/ PrCommitPush
    \/ PrChangedFiles
    \/ PrCreatePull
    \/ PrCheckoutTarget
    \/ PrExcept
    \/ PrReturn

SpecPr == InitPr /\ [][NextPr]_vars

\* ------------------------------------------------------------------ claims

\* C1: an invocation that starts with every file's fingerprint equal to its
\* cache entry posts no message and starts no run.
C1_NoRemoteCallWhenUnchanged == cleanStart => ~calledRemote

\* C2: a job whose run asked for the registered tool function has, when the
\* runner returns, invoked the function exactly once and submitted exactly
\* one tool-output acknowledgment, whatever the function returned.
C2_ToolCallAcknowledgedOnce ==
    (jpc = "ret" /\ invoked > 0) => (invoked = 1 /\ acked = 1)

\* C3: a job all of whose retrievals report 'failed' polls once per attempt,
\* never more than MAX_RETRIES + 1 times, and returns the failure string
\* after exactly MAX_RETRIES + 1 retrievals; it never raises.
C3_RetryBound ==
    /\ (jpc = "poll" /\ ~sawOther) => (polls = retries /\ retries <= MAX_RETRIES)
    /\ (jpc = "ret" /\ polls > 0 /\ ~sawOther) =>
          (polls = MAX_RETRIES + 1 /\ jres = IncompleteRun)

C3_Witness == jpc = "ret" /\ polls = MAX_RETRIES + 1 /\ ~sawOther

\* C4: the string get_relevant_context returns, separators included, has at
\* most max_tokens tokens.
C4_BudgetRespected == cpc = "returned" => TokenCount(context) <= max_tokens

\* C5: no message is posted and no run is started on the thread while a run
\* started before has not reached a terminal status.
C5_OneRunInFlight == ~overlap

\* C6: at every point inside save_cache, load_cache of the cache file gives
\* the mapping the file held before the call or the mapping being saved.
C6_SaveCacheAtomic ==
    pc = "dump_cache" => load_cache(cacheFile) \in {cacheFile.data, cache}

\* C7: at every point of a run, the cache a next run would load has every
\* entry the in-memory cache had at the end of the last batch that
\* save_cache finished.
C7_CheckpointSurvives ==
    \A f \in Files :
        checkpoint[f] # NoEntry => load_cache(cacheFile)[f] # NoEntry

\* C8: with manual set, every file the invocation overwrote is one whose diff
\* the user was shown and confirmed.
C8_ManualNeedsConfirmation == manual => written \subseteq approved

\* C9: a docstring job that returned one of the failure strings is not
\* logged as "Docstrings successfully added and saved".
C9_FailureNotReportedAsSuccess ==
    log.result \in {IncompleteRun, ApiError} => log.level # "success"

\* the number of folder batches whose file list holds f
ExpectedAttempts(f, depth) ==
    Cardinality({i \in 1..Len(FolderBatches(depth)) :
                   \E k \in 1..Len(get_python_files(FolderBatches(depth)[i])) :
                       get_python_files(FolderBatches(depth)[i])[k] = f})

\* C10: whatever files failed, a run that got past setup ends having called
\* process_single_file for every file of every folder batch, and while a
\* folder's loop runs no file of the folder is skipped.
C10_FailureIsolation ==
    /\ pc = "done" =>
          \A f \in Files : attempted[f] = ExpectedAttempts(f, pr_depth)
    /\ pc \in {"dump_ledger", "save_cache", "dump_cache"} =>
          \A k \in 1..Len(get_python_files(Head(batches))) :
              attempted[get_python_files(Head(batches))[k]] >= 1

C10_Witness ==
    /\ pc = "done"
    /\ pr_depth = 1
    /\ failedFiles = Files
    /\ attempted["a.py"] = 1
    /\ attempted["sub/b.py"] = 2

\* C11: in every cache state, a file that cannot be read (its fingerprint is
\* the "" sentinel) is selected by the dirty check.
C11_UnreadableAlwaysDirty ==
    \A f \in Files :
        filter_files_by_hash(<<f>>, cache, [g \in Files |-> FALSE]) = <<f>>

\* a step past the load changes a cache entry only by writing the file's
\* new content
CacheChangeIsWrite ==
    \A f \in Files :
        cache'[f] # cache[f] =>
            /\ f \in written'
            /\ disk'[f] = ensure_docstring_header("doc")

\* C12: a cache entry is created or changed only when the file's new content
\* was written, and, with manual set, only when the change was approved.
C12_CacheOnlyOnApprovedWrite ==
    [][pc # "start" =>
          /\ CacheChangeIsWrite
          /\ \A f \in Files :
                (manual /\ cache'[f] # cache[f]) => f \in approved']_vars

\* C13 as stated: with a.py cached at H1 and changed to fingerprint H2, once
\* the pipeline has written a.py the cache maps it to H2.
C13_CacheMapsToChangedFingerprint ==
    "a.py" \in written => cache["a.py"] = Sha256("orig")

\* C13 amended: the dirty check selects the changed a.py at the start; once
\* the pipeline has written a.py and read it back, the cache maps it to the
\* fingerprint of the content now in the file and the dirty check no longer
\* selects it.
C13_CacheMapsToWrittenFingerprint ==
    /\ pc = "start" =>
          filter_files_by_hash(<<"a.py">>, load_cache(cacheFile),
                               [g \in Files |-> TRUE]) = <<"a.py">>
    /\ ("a.py" \in written /\ cache["a.py"] # Unreadable) =>
          /\ cache["a.py"] = Sha256(disk["a.py"])
          /\ filter_files_by_hash(<<"a.py">>, cache,
                                  [g \in Files |-> TRUE]) = <<>>

C13_Witness ==
    /\ "a.py" \in written
    /\ cache["a.py"] = Sha256(disk["a.py"])
    /\ cache["a.py"] # Sha256("orig")

\* C14: a run whose assistant or thread could not be created is aborted
\* right after setup, with every source file, the cache file and the ledger
\* as they were, no file overwritten (backups are made only on the way to
\* an overwrite) and no message or run sent.
C14_FatalSetupMutatesNothing ==
    (pc # "start" /\ (~assistant_id \/ ~thread_id)) =>
        /\ pc = "aborted"
        /\ FreshRepository \/ ProcessedRepository
        /\ written = {}
        /\ ~calledRemote
        /\ runStatus = "none"
        /\ jpc = "idle"

C14_Witness == pc = "aborted" /\ assistant_id /\ ~thread_id

C16_CacheRoundTrip ==
    pc = "loaded" =>
        /\ log = SavedLog => cache = checkpoint
        /\ cacheFile.st = "missing" => cache = EmptyCache

C16_Witness ==
    /\ pc = "loaded"
    /\ log = SavedLog
    /\ cache["a.py"] = Unreadable
    /\ cache["sub/b.py"] = Sha256("orig")

\* C17: whichever files can be read, filter_files_by_hash selects a file if
\* and only if the cache has no entry for it or the cached fingerprint
\* differs from its current one.
C17_DirtyCheck ==
    \A rd \in [Files -> BOOLEAN], f \in Files :
        LET sel == filter_files_by_hash(sort_files_by_size, cache, rd) IN
        (\E i \in 1..Len(sel) : sel[i] = f) <=>
            (cache[f] = NoEntry \/ cache[f] # compute_sha256(f, rd[f]))

\* of the edited a.py and the unchanged sub/b.py only a.py was selected
C17_Witness ==
    /\ pc = "describe"
    /\ todo = <<"a.py">>
    /\ cache["a.py"] = "sha-old"
    /\ cache["sub/b.py"] = Sha256(disk["sub/b.py"])

\* C18: the runner never polls a run it has already seen in a terminal
\* failure status: before it polls again it has started a new run.
C18_RetryStartsNewRun == jpc = "poll" => runStatus # "failed"

\* C19: poll_run_completion returns a truthy value to
\* send_message_to_assistant only in a step that observed the run in status
\* 'completed'.
C19_SuccessRequiresCompleted ==
    [][(jpc = "poll" /\ jpc' = "ret" /\ jres' # IncompleteRun) =>
          runStatus' = "completed"]_vars

\* C20: every tool call the job's run was seen asking for has been invoked
\* and acknowledged.
C20_EveryToolCallDispatched == invoked = requested /\ acked = requested

\* the first k retrieved documents, each followed by the separator
Joined(k) ==
    LET F[i \in 0..k] ==
          IF i = 0 THEN <<>> ELSE F[i - 1] \o retrieved[i] \o Separator
    IN F[k]

\* the token counts of the first k retrieved documents, summed
Charged(k) ==
    LET F[i \in 0..k] ==
          IF i = 0 THEN 0 ELSE F[i - 1] + TokenCount(retrieved[i])
    IN F[k]

\* C21: the string get_relevant_context returns is made of the longest
\* prefix of the retrieved documents whose summed token counts do not exceed
\* max_tokens, in retrieval order, each document in full and followed by
\* the separator; it is empty when the first document does not fit or
\* nothing was retrieved.
C21_WholeDocumentPrefix ==
    cpc = "returned" =>
        LET fits == {k \in 0..Len(retrieved) : Charged(k) <= max_tokens}
            longest == CHOOSE k \in fits : \A j \in fits : j <= k
        IN /\ context = Joined(longest)
           /\ (retrieved = <<>> \/ TokenCount(retrieved[1]) > max_tokens)
                 => context = <<>>

\* one document was taken and the next, which fills more than what is
\* left of the budget, was turned away
C21_Witness ==
    /\ cpc = "returned"
    /\ context # <<>>
    /\ results # <<>>
    /\ token_count = max_tokens

\* C22: no source file is overwritten in a call that did not first leave
\* a backup of the file's previous content.
C22_BackupBeforeOverwrite == unbacked = {}

\* C23: at the end of a run every ledger record of a file with a
\* fingerprint in the cache describes the version of the file that
\* fingerprint belongs to.
C23_DescriptionFresh ==
    pc = "done" =>
        \A f \in Files :
            (HasDescription(context_summary, f)
                 /\ cache[f] \notin {NoEntry, Unreadable})
               => described[f] = cache[f]

\* C24: the ledger has at most one record per relative path.
C24_LedgerUnique ==
    \A i, j \in 1..Len(context_summary) :
        context_summary[i].file = context_summary[j].file => i = j

\* a run on a fresh repository that described and processed both files
C24_Witness ==
    /\ pc = "done"
    /\ ~cleanStart
    /\ Len(context_summary) = 2
    /\ written = Files

\* C25: no docstring job is submitted for a file that has no record in the
\* ledger.
C25_DescriptionBeforeGeneration ==
    (pc = "files" /\ jpc = "submit") => HasDescription(context_summary, cur)

\* RETRY_BACKOFF * (1 + 2 + ... + n)
LinearTotal(n) == RETRY_BACKOFF * ((n * (n + 1)) \div 2)

C27_TargetBranchRestored ==
    (gpc = "returned" /\ featureOut) => restored

\* C28: within one run a file is passed to process_single_file at most
\* once.
C28_FileSubmittedAtMostOnce == \A f \in Files : attempted[f] <= 1

\* C29: no ledger record holds one of the job runner's failure strings as
\* its description.
C29_FailedDescriptionNotRecorded ==
    \A i \in 1..Len(context_summary) :
        context_summary[i].description \notin {IncompleteRun, ApiError}

\* C30: every call of poll_run_completion eventually returns, the retry
\* counter never exceeds MAX_RETRIES + 1, and a poll that finds the run
\* queued or in progress leaves the retry counter alone and polls again.
C30_PollingTerminates ==
    /\ (jpc = "poll") ~> (jpc = "ret")
    /\ [](retries <= MAX_RETRIES + 1)
    /\ [][waits' > waits => (retries' = retries /\ jpc' = "poll")]_vars

\* a job that waited, then failed on every later poll, and returned
C30_Witness ==
    /\ jpc = "ret"
    /\ waits = MaxWait
    /\ polls = MaxWait + MAX_RETRIES + 1
    /\ jres = IncompleteRun

====
